---- MODULE Spec2Model ----
(***************************************************************************)
(* State-machine model of pyrv8's asyncio bridge (src/pyrv8/asyncio.py):   *)
(* the Promise adapter (a subclass of asyncio.Future wrapping a JsPromise  *)
(* handle) and the AsyncContext that owns the engine and the live set      *)
(* _promises.                                                              *)
(*                                                                         *)
(* The engine itself (pyrv8.pyrv8: Context.advance, Context.call_async,    *)
(* JsPromise.step/result/exception) is a compiled extension that is not    *)
(* part of the source tree; it is modelled from the specification: a tick  *)
(* of the engine loop, and handles that report settled once the ticks they *)
(* wait for have happened.                                                 *)
(*                                                                         *)
(* Promise.__init__ never calls asyncio.Future.__init__, so every Promise  *)
(* is an uninitialised Future.  What an uninitialised Future does is not   *)
(* defined by asyncio; the two implementations an interpreter can provide  *)
(* behave differently, and the model takes both:                           *)
(*   "C"  the _asyncio accelerator: every operation that needs the loop    *)
(*        raises RuntimeError("Future object is not initialized."), the    *)
(*        state stays PENDING;                                             *)
(*   "Py" asyncio.futures._PyFuture: class-level defaults (_state =        *)
(*        PENDING, _loop = None) are read, state changes are stored, and   *)
(*        the callback scheduling that follows them raises AttributeError  *)
(*        (no _callbacks attribute).                                       *)
(***************************************************************************)
EXTENDS Naturals, Sequences, FiniteSets

VARIABLES
    futImpl,    \* which asyncio.Future implementation Promise inherits from
    handles,    \* engine: the JsPromise handle objects the host holds
    promises,   \* the Promise objects that exist
    _promises,  \* AsyncContext._promises, the live set (ids into promises)
    waitPc,     \* position of the wait() generator
    waitAdv,    \* advances performed by the current run of wait()
    waitK,      \* ticks the live futures still needed when wait() was called
    ret         \* the last operation: what its caller got, and the engine
                \* ticks it performed

vars == <<futImpl, handles, promises, _promises, waitPc, waitAdv, waitK, ret>>

\* Bounds of the model.
MaxK == 2
MaxPromises == 2

Impls == {"C", "Py"}

Outcome(op, f, kind, ticked) ==
    [op |-> op, f |-> f, kind |-> kind, ticked |-> ticked]

\* What a synchronous call hands back to its caller: the engine's value v
\* for input number i.
Returned(op, i, v) ==
    [op |-> op, f |-> i, kind |-> "value", ticked |-> 0, val |-> v]

----------------------------------------------------------------------------
(* The engine (modelled from the specification, sections 2 and 6).         *)

\* The expressions the host evaluates.
Codes == <<"5+5", "6*7">>

\* The argument lists the host passes to the JavaScript function add.
Args == << <<1, 2>>, <<2, 3>> >>

\* JsContext.eval(code): the value of the expression.
JsContext_eval(code) == IF code = "5+5" THEN 5 + 5 ELSE 6 * 7

\* JsContext.call(name, *args) and JsContext.call_module(module, name,
\* *args): the value the named function returns.
JsContext_call(name, args) == IF name = "add" THEN args[1] + args[2] ELSE 0

\* JsPromise.step(ctx), with the engine's handles as in hs: true once the
\* handle has settled (no tick left to wait for).
step(h, hs) == hs[h].left = 0

\* JsPromise.exception(): the rejection, or None (0) for a resolved handle.
\* A handle's value or error is identified with the handle's own id.
exception(h) == IF handles[h].rejects THEN h ELSE 0

\* JsPromise.result()
result(h) == h

\* JsContext.call_async / call_module_async: the engine starts a promise
\* that settles on its k-th tick from now and returns a new handle.
NewHandle(k, rejects) ==
    Append(handles, [left |-> k, rejects |-> rejects])

\* JsContext.advance(): one tick of the engine loop, which brings every
\* unsettled handle one tick nearer to settling.
JsContext_advance ==
    [h \in DOMAIN handles |->
        [handles[h] EXCEPT !.left = IF @ = 0 THEN 0 ELSE @ - 1]]

----------------------------------------------------------------------------
(* asyncio.Future as Promise inherits it, never initialised.               *)

\* Promise.__init__(context, p): stores the engine and the handle, and does
\* not initialise the Future base.
Promise_init(h) ==
    [p |-> h, state |-> "PENDING", result |-> 0, exception |-> 0,
     suspended |-> FALSE]

\* A done() that never reports done: every poll would take the path of a
\* pending future.
done_never(me) == FALSE

\* Future.done()
done(me) == me.state # "PENDING"

\* super().set_exception(exc) / super().set_result(value) for handle h: what
\* the call leaves in the future, and what it raises.
Future_settle(me, h) ==
    IF futImpl = "C"
    THEN [rec |-> me, raised |-> "RuntimeError"]
    ELSE [rec |-> [me EXCEPT !.state = "FINISHED",
                             !.exception = exception(h),
                             !.result = IF exception(h) # 0 THEN 0 ELSE result(h)],
          raised |-> "AttributeError"]

\* Future.result(): what it does: "value" returns the stored result, "error"
\* raises the stored exception, the others raise the error they name.
Future_result(me) ==
    IF futImpl = "C" THEN "InvalidStateError"
    ELSE IF me.state = "CANCELLED" THEN "CancelledError"
    ELSE IF me.state # "FINISHED" THEN "InvalidStateError"
    ELSE IF me.exception # 0 THEN "error"
    ELSE "value"

\* A cancel() that does not look at the state of the future it cancels.
Future_cancel_any(me) ==
    IF futImpl = "C" THEN [rec |-> me, kind |-> "RuntimeError"]
    ELSE [rec |-> [me EXCEPT !.state = "CANCELLED"], kind |-> "AttributeError"]

\* Future.cancel(): what it leaves in the future, and what it returns or
\* raises.
Future_cancel(me) ==
    IF futImpl = "C" THEN [rec |-> me, kind |-> "RuntimeError"]
    ELSE IF me.state # "PENDING" THEN [rec |-> me, kind |-> "False"]
    ELSE [rec |-> [me EXCEPT !.state = "CANCELLED"], kind |-> "AttributeError"]

----------------------------------------------------------------------------
(* Promise                                                                 *)

\* A __step that stores the handle's outcome without asking the handle
\* whether it has settled.
__step_unconditional(me) ==
    [ticked |-> 1, hs |-> JsContext_advance,
     rec |-> Future_settle(me, me.p).rec,
     raised |-> Future_settle(me, me.p).raised]

\* Promise.__step: one engine tick, then ask the handle whether it settled
\* and, if so, store its error or value in the future.
__step(me) ==
    LET hs == JsContext_advance
    IN  IF step(me.p, hs)
        THEN [ticked |-> 1, hs |-> hs, rec |-> Future_settle(me, me.p).rec,
              raised |-> Future_settle(me, me.p).raised]
        ELSE [ticked |-> 1, hs |-> hs, rec |-> me, raised |-> "none"]

\* Promise.__await__, from the call to its first suspension, return or
\* raise: one poll of the future.
__await__(f) ==
    /\ f \in DOMAIN promises
    /\ LET me == promises[f]
       IN  IF done(me)
           THEN \* lines 29 and 33 are skipped: return self.result()
                /\ ret' = Outcome("await", f, Future_result(me), 0)
                /\ UNCHANGED <<handles, promises>>
           ELSE IF futImpl = "C"
           THEN \* line 30: the assignment to _asyncio_future_blocking raises
                \* (with "Py" it stores a flag that only a Task reads)
                /\ ret' = Outcome("await", f, "RuntimeError", 0)
                /\ UNCHANGED <<handles, promises>>
           ELSE LET s == __step(me)
                IN  /\ handles' = s.hs
                    /\ IF s.raised # "none"
                       THEN /\ ret' = Outcome("await", f, s.raised, s.ticked)
                            /\ promises' = [promises EXCEPT ![f] = s.rec]
                       ELSE \* line 32: yield self
                            /\ ret' = Outcome("await", f, "yield", s.ticked)
                            /\ promises' =
                                 [promises EXCEPT ![f] =
                                     [s.rec EXCEPT !.suspended = TRUE]]
    /\ UNCHANGED <<futImpl, _promises, waitPc, waitAdv, waitK>>

\* An __await__ that loops: resumed while the future is still pending, it
\* ticks the engine again and suspends again.
__await__send_repoll(f) ==
    /\ f \in DOMAIN promises
    /\ promises[f].suspended
    /\ LET me == promises[f]
       IN  IF done(me)
           THEN /\ ret' = Outcome("send", f, Future_result(me), 0)
                /\ promises' = [promises EXCEPT ![f].suspended = FALSE]
                /\ handles' = handles
           ELSE /\ ret' = Outcome("send", f, "yield", 1)
                /\ promises' = promises
                /\ handles' = JsContext_advance
    /\ UNCHANGED <<futImpl, _promises, waitPc, waitAdv, waitK>>

\* Promise.__await__, resumed after its yield (lines 33-35).
__await__send(f) ==
    /\ f \in DOMAIN promises
    /\ promises[f].suspended
    /\ LET me == promises[f]
       IN  /\ ret' = IF ~done(me)
                     THEN Outcome("send", f, "RuntimeError", 0)
                     ELSE Outcome("send", f, Future_result(me), 0)
           /\ promises' = [promises EXCEPT ![f].suspended = FALSE]
    /\ UNCHANGED <<futImpl, handles, _promises, waitPc, waitAdv, waitK>>

\* Future.set_result as Promise would inherit it without its override: it
\* settles a pending future.
set_result_inherited(f) ==
    /\ f \in DOMAIN promises
    /\ IF promises[f].state = "PENDING"
       THEN /\ promises' = [promises EXCEPT ![f].state = "FINISHED", ![f].result = 1]
            /\ ret' = Outcome("set_result", f, "None", 0)
       ELSE /\ promises' = promises
            /\ ret' = Outcome("set_result", f, "InvalidStateError", 0)
    /\ UNCHANGED <<futImpl, handles, _promises, waitPc, waitAdv, waitK>>

\* Promise.set_result(result): always raises.
set_result(f) ==
    /\ f \in DOMAIN promises
    /\ ret' = Outcome("set_result", f, "RuntimeError", 0)
    /\ UNCHANGED <<futImpl, handles, promises, _promises, waitPc, waitAdv, waitK>>

\* Promise.set_exception(exception): always raises.
set_exception(f) ==
    /\ f \in DOMAIN promises
    /\ ret' = Outcome("set_exception", f, "RuntimeError", 0)
    /\ UNCHANGED <<futImpl, handles, promises, _promises, waitPc, waitAdv, waitK>>

\* Promise.cancel(), inherited from Future: cancelling one future.
Promise_cancel(f) ==
    /\ f \in DOMAIN promises
    /\ LET c == Future_cancel(promises[f])
       IN  /\ ret' = Outcome("future_cancel", f, c.kind, 0)
           /\ promises' = [promises EXCEPT ![f] = c.rec]
    /\ UNCHANGED <<futImpl, handles, _promises, waitPc, waitAdv, waitK>>

\* Promise(ctx, handle) written by the host itself, on a handle it got from
\* the engine: the adapter is built and is registered nowhere.
NewPromise ==
    /\ Len(promises) < MaxPromises
    /\ \E k \in 1..MaxK, r \in BOOLEAN :
          /\ handles' = NewHandle(k, r)
          /\ promises' = Append(promises, Promise_init(Len(handles) + 1))
    /\ ret' = Outcome("Promise", Len(promises) + 1, "future", 0)
    /\ UNCHANGED <<futImpl, _promises, waitPc, waitAdv, waitK>>

----------------------------------------------------------------------------
(* AsyncContext                                                            *)

\* Promise(self, js, name=name) as __init_promise writes it: __init__ takes
\* context and p only, so the call raises TypeError whenever the name keyword
\* is passed.
Promise_call(h, nameKeyword) ==
    IF nameKeyword
    THEN [raised |-> "TypeError", rec |-> Promise_init(h)]
    ELSE [raised |-> "none", rec |-> Promise_init(h)]

\* AsyncContext.__init_promise(js, name) for a handle that settles on its
\* k-th tick: what it leaves in handles, promises and the live set, and what
\* the caller gets.  When Promise(...) raises, nothing holds the handle any
\* longer and the JsPromise object is gone when the call returns.
__init_promise(k, rejects) ==
    LET h == Len(handles) + 1
        id == Len(promises) + 1
        c == Promise_call(h, TRUE)
    IN  IF c.raised # "none"
        THEN [hs |-> handles, proms |-> promises, live |-> _promises,
              kind |-> c.raised]
        ELSE \* line 89 registers p; line 90, add_done_callback on the
             \* uninitialised future, raises
             [hs |-> NewHandle(k, rejects), proms |-> Append(promises, c.rec),
              live |-> _promises \cup {id},
              kind |-> IF futImpl = "C" THEN "RuntimeError" ELSE "AttributeError"]

\* AsyncContext.call_async(name, *args, fut_name=None): the engine call is
\* evaluated first, then __init_promise on the handle it returned.
call_async ==
    /\ \E k \in 1..MaxK, r \in BOOLEAN :
          LET i == __init_promise(k, r)
          IN  /\ Len(i.proms) <= MaxPromises
              /\ handles' = i.hs
              /\ promises' = i.proms
              /\ _promises' = i.live
              /\ ret' = Outcome("call_async", 0, i.kind, 0)
    /\ UNCHANGED <<futImpl, waitPc, waitAdv, waitK>>

\* AsyncContext.call_module_async(module, name, *args): the engine call is
\* evaluated first; __init_promise is then called without its name argument
\* and raises TypeError before its body runs, and the handle is dropped.
call_module_async ==
    /\ ret' = Outcome("call_module_async", 0, "TypeError", 0)
    /\ UNCHANGED <<futImpl, handles, promises, _promises, waitPc, waitAdv, waitK>>

\* An advance() that, after the tick, also settles every pending future
\* whose handle has settled.
advance_settling ==
    /\ handles' = JsContext_advance
    /\ promises' =
          [f \in DOMAIN promises |->
              IF promises[f].state = "PENDING"
                 /\ step(promises[f].p, JsContext_advance)
              THEN [promises[f] EXCEPT !.state = "FINISHED",
                                       !.exception = exception(promises[f].p),
                                       !.result = IF exception(promises[f].p) # 0
                                                  THEN 0
                                                  ELSE result(promises[f].p)]
              ELSE promises[f]]
    /\ ret' = Outcome("advance", 0, "None", 1)
    /\ UNCHANGED <<futImpl, _promises, waitPc, waitAdv, waitK>>

\* AsyncContext.advance(): one engine tick; returns None.
advance ==
    /\ handles' = JsContext_advance
    /\ ret' = Outcome("advance", 0, "None", 1)
    /\ UNCHANGED <<futImpl, promises, _promises, waitPc, waitAdv, waitK>>

\* AsyncContext.eval(code): the engine evaluates the expression and the
\* wrapper drops the value: there is no return statement, the caller gets
\* None.
eval(i) ==
    /\ i \in DOMAIN Codes
    /\ JsContext_eval(Codes[i]) \in Nat
    /\ ret' = Outcome("eval", i, "None", 0)
    /\ UNCHANGED <<futImpl, handles, promises, _promises, waitPc, waitAdv, waitK>>

\* AsyncContext.call(name, *args): returns what the engine returns.
call(i) ==
    /\ i \in DOMAIN Args
    /\ ret' = Returned("call", i, JsContext_call("add", Args[i]))
    /\ UNCHANGED <<futImpl, handles, promises, _promises, waitPc, waitAdv, waitK>>

\* AsyncContext.call_module(module, name, *args): returns what the engine
\* returns.
call_module(i) ==
    /\ i \in DOMAIN Args
    /\ ret' = Returned("call_module", i, JsContext_call("add", Args[i]))
    /\ UNCHANGED <<futImpl, handles, promises, _promises, waitPc, waitAdv, waitK>>

\* The orders in which set.pop() can hand out the members of S.
Orders(S) ==
    {o \in [1..Cardinality(S) -> S] : \A i, j \in DOMAIN o : i # j => o[i] # o[j]}

Range(o) == {o[i] : i \in DOMAIN o}

\* The loop of AsyncContext.cancel over the members in pop order: each is
\* popped and, when not done, cancelled; an exception of f.cancel() leaves
\* the loop with the remaining members still in the set.
RECURSIVE cancel_loop(_, _)
cancel_loop(order, ps) ==
    IF order = <<>>
    THEN [proms |-> ps, live |-> {}, kind |-> "None"]
    ELSE LET f == Head(order)
             c == Future_cancel(ps[f])
         IN  IF done(ps[f])
             THEN cancel_loop(Tail(order), ps)
             ELSE IF c.kind \in {"RuntimeError", "AttributeError"}
             THEN [proms |-> [ps EXCEPT ![f] = c.rec],
                   live |-> Range(Tail(order)), kind |-> c.kind]
             ELSE cancel_loop(Tail(order), [ps EXCEPT ![f] = c.rec])

\* AsyncContext.cancel(): bulk cancellation of the live set.
cancel ==
    /\ \E order \in Orders(_promises) :
          LET c == cancel_loop(order, promises)
          IN  /\ promises' = c.proms
              /\ _promises' = c.live
              /\ ret' = Outcome("cancel", 0, c.kind, 0)
    /\ UNCHANGED <<futImpl, handles, waitPc, waitAdv, waitK>>

\* AsyncContext.__aenter__(): entering the managed scope returns the context.
__aenter__ ==
    /\ ret' = Outcome("__aenter__", 0, "self", 0)
    /\ UNCHANGED <<futImpl, handles, promises, _promises, waitPc, waitAdv, waitK>>

\* AsyncContext.__aexit__(*args): leaving the managed scope, normally or
\* with an error in args, runs self.cancel() and nothing else.
__aexit__ ==
    /\ \E order \in Orders(_promises) :
          LET c == cancel_loop(order, promises)
          IN  /\ promises' = c.proms
              /\ _promises' = c.live
              /\ ret' = Outcome("__aexit__", 0, c.kind, 0)
    /\ UNCHANGED <<futImpl, handles, waitPc, waitAdv, waitK>>

\* Ticks the members of the live set still need, at most.
LiveK ==
    IF _promises = {} THEN 0
    ELSE CHOOSE m \in 0..MaxK :
            /\ \A f \in _promises : handles[promises[f].p].left <= m
            /\ \E f \in _promises : handles[promises[f].p].left = m

\* The loop of wait() written as advance-then-test: it advances before it
\* looks at the live set.
wait_loop_advance_first(adv) ==
    /\ adv <= MaxK
    /\ handles' = JsContext_advance
    /\ waitAdv' = adv + 1
    /\ waitPc' = IF _promises # {} THEN "yield104" ELSE "yield105"
    /\ ret' = Outcome("wait", 0, "yield", 1)

\* The body of wait() from its loop test to the next yield.
wait_loop(adv) ==
    IF _promises # {}
    THEN /\ adv <= MaxK
         /\ handles' = JsContext_advance
         /\ waitAdv' = adv + 1
         /\ waitPc' = "yield104"
         /\ ret' = Outcome("wait", 0, "yield", 1)
    ELSE /\ handles' = handles
         /\ waitAdv' = adv
         /\ waitPc' = "yield105"
         /\ ret' = Outcome("wait", 0, "yield", 0)

\* AsyncContext.wait(), from the call to its first yield.
wait ==
    /\ waitPc = "none"
    /\ waitK' = LiveK
    /\ wait_loop(0)
    /\ UNCHANGED <<futImpl, promises, _promises>>

\* AsyncContext.wait(), resumed by the host scheduler after a yield.
wait_send ==
    /\ waitPc # "none"
    /\ IF waitPc = "yield104"
       THEN wait_loop(waitAdv)
       ELSE /\ waitPc' = "none"
            /\ waitAdv' = waitAdv
            /\ handles' = handles
            /\ ret' = Outcome("wait", 0, "None", 0)
    /\ UNCHANGED <<futImpl, promises, _promises, waitK>>

----------------------------------------------------------------------------
Init ==
    /\ futImpl \in Impls
    /\ handles = <<>>
    /\ promises = <<>>
    /\ _promises = {}
    /\ waitPc = "none"
    /\ waitAdv = 0
    /\ waitK = 0
    /\ ret = Outcome("init", 0, "None", 0)

Next ==
    \/ call_async
    \/ call_module_async
    \/ advance
    \/ NewPromise
    \/ \E f \in 1..MaxPromises : __await__(f)
    \/ \E f \in 1..MaxPromises : __await__send(f)
    \/ \E f \in 1..MaxPromises : set_result(f)
    \/ \E f \in 1..MaxPromises : set_exception(f)
    \/ \E f \in 1..MaxPromises : Promise_cancel(f)
    \/ cancel
    \/ wait
    \/ wait_send
    \/ __aexit__

Spec == Init /\ [][Next]_vars

\* The operations of the bridge together with those that touch nothing of
\* its state: the synchronous wrappers and __aenter__.
NextSync ==
    \/ Next
    \/ \E i \in DOMAIN Codes : eval(i)
    \/ \E i \in DOMAIN Args : call(i)
    \/ \E i \in DOMAIN Args : call_module(i)
    \/ __aenter__

SyncSpec == Init /\ [][NextSync]_vars

\* The host scheduler resumes a suspended wait() coroutine: a task that
\* yielded to the event loop is scheduled again.
FairSpec == Spec /\ WF_vars(wait_send)

----------------------------------------------------------------------------
(* Properties                                                              *)

Pending(f) == promises[f].state = "PENDING"
Settled(f) == promises[f].state = "FINISHED"
Cancelled(f) == promises[f].state = "CANCELLED"

AsyncCalls == {"call_async", "call_module_async"}

\* What a poll of future f delivers once f is settled: the value or the
\* error of f's own handle.
OwnOutcome(f) == IF handles[promises[f].p].rejects THEN "error" ELSE "value"

\* The future holds the terminal value or error of its own handle.
HoldsOwnOutcome(f) ==
    /\ Settled(f)
    /\ promises[f].exception = exception(promises[f].p)
    /\ promises[f].result = IF exception(promises[f].p) # 0 THEN 0
                            ELSE result(promises[f].p)

\* C1: a Bridge Future is a member of the live set if and only if it is
\* Pending, and right after an async call (nothing has polled or cancelled
\* yet) the future it created is Pending and in the live set: the live set is
\* exactly the set of pending futures.
C1_LiveSetIsPendingSet ==
    /\ \A f \in DOMAIN promises : (f \in _promises) <=> Pending(f)
    /\ ret.op \in AsyncCalls => \E f \in _promises : Pending(f)

\* C2: a Bridge Future is removed from the live set exactly at the step in
\* which it leaves Pending, whichever path terminates it: every step that
\* takes a future out of Pending takes it out of the live set, and nothing
\* else removes it.
C2_RemovedOnLeavingPending ==
    [][\A f \in DOMAIN promises :
          /\ (Pending(f) /\ promises'[f].state # "PENDING")
                => (f \in _promises /\ f \notin _promises')
          /\ (f \in _promises /\ f \notin _promises')
                => (Pending(f) /\ promises'[f].state # "PENDING")]_vars

\* C3: call_async and call_module_async return a new Pending Bridge Future
\* that is registered in the live set.
C3_AsyncCallReturnsRegisteredFuture ==
    ret.op \in AsyncCalls =>
        /\ ret.kind = "future"
        /\ ret.f \in _promises
        /\ Pending(ret.f)

\* C4: an await of a Bridge Future that has not been cancelled either is
\* still suspended or completes with the value or the error of the future's
\* own handle; it never ends in another error.  (If the awaiting task
\* eventually completes with the handle's outcome, it does not complete with
\* anything else before.)
C4_AwaitCompletesWithHandleOutcome ==
    (ret.op \in {"await", "send"} /\ ~Cancelled(ret.f)) =>
        \/ ret.kind = "yield"
        \/ ret.kind = OwnOutcome(ret.f) /\ HoldsOwnOutcome(ret.f)

\* C5, at the first poll: a future is created on a handle that settles on
\* its k-th tick and is polled at once, no tick issued in between; if k > 1
\* the poll reports pending, and if k = 1 it reports settled, the future
\* holding the handle's own outcome.
C5_FirstPollFollowsHandle ==
    [][(ret.op = "Promise" /\ ret'.op = "await" /\ ret'.f = ret.f) =>
          IF handles[promises[ret.f].p].left > 1
          THEN ret'.kind = "yield" /\ promises'[ret.f].state = "PENDING"
          ELSE /\ ret'.kind \in {"yield", "value", "error"}
               /\ promises'[ret.f].state = "FINISHED"
               /\ promises'[ret.f].exception = exception(promises[ret.f].p)]_vars

C7_CancelAllCancelsRegistered ==
    [][(ret.op \in AsyncCalls /\ ret'.op = "cancel") =>
          /\ _promises' = {}
          /\ _promises # {}
          /\ \A f \in _promises : promises'[f].state \in {"CANCELLED", "FINISHED"}
          /\ \E f \in _promises : promises'[f].state = "CANCELLED"]_vars

\* C8: a poll of a Settled future (a new await, or the resumption of a
\* suspended one) returns the cached value or error of the future, performs
\* no engine tick and leaves the engine and the cached outcome as they were.
C8_SettledPollIsCached ==
    [][\A f \in DOMAIN promises :
          (Settled(f) /\ ret'.op \in {"await", "send"} /\ ret'.f = f) =>
             /\ ret'.ticked = 0
             /\ handles' = handles
             /\ ret'.kind = IF promises[f].exception # 0 THEN "error" ELSE "value"
             /\ promises'[f].state = "FINISHED"
             /\ promises'[f].result = promises[f].result
             /\ promises'[f].exception = promises[f].exception]_vars

\* C8 witness: a Settled future has just been polled and gave its cached
\* outcome.
C8_Witness ==
    /\ ret.op = "await"
    /\ ret.kind \in {"value", "error"}
    /\ Settled(ret.f)

\* C9: two futures share the context and the handles of both have settled;
\* the next poll of one that is still Pending (its handle was settled by a
\* tick its own poll did not issue) does not fail and leaves the future
\* Settled with the outcome of its own handle.
C9_NextPollObservesOwnOutcome ==
    [][\A f \in DOMAIN promises :
          (/\ Pending(f)
           /\ handles[promises[f].p].left = 0
           /\ \E g \in DOMAIN promises : g # f /\ handles[promises[g].p].left = 0
           /\ ret'.op = "await" /\ ret'.f = f) =>
             /\ ret'.kind \in {"yield", "value", "error"}
             /\ promises'[f].state = "FINISHED"
             /\ promises'[f].exception = exception(promises[f].p)
             /\ promises'[f].result = IF exception(promises[f].p) # 0 THEN 0
                                      ELSE result(promises[f].p)]_vars

\* C10: set_result and set_exception always fail with an error and leave
\* every future and the live set as they were.
C10_DirectSettlementFails ==
    [][ret'.op \in {"set_result", "set_exception"} =>
          /\ ret'.kind = "RuntimeError"
          /\ promises' = promises
          /\ _promises' = _promises
          /\ handles' = handles]_vars

\* C10 witness: set_result or set_exception was called on a future that is
\* no longer Pending, and raised.
C10_Witness ==
    /\ ret.op \in {"set_result", "set_exception"}
    /\ ret.kind = "RuntimeError"
    /\ ~Pending(ret.f)

\* C11: a Settled future holds the value or the error of its own handle,
\* which has settled; a future becomes Settled only in a poll of that
\* future which found its handle settled, and that poll does not raise the
\* handle's rejection (nor return its value): the outcome is stored.
C11_SettledOnlyByOwnPoll ==
    /\ [](\A f \in DOMAIN promises :
             Settled(f) => (HoldsOwnOutcome(f) /\ step(promises[f].p, handles)))
    /\ [][\A f \in DOMAIN promises :
             (Pending(f) /\ promises'[f].state = "FINISHED") =>
                /\ ret'.op = "await" /\ ret'.f = f
                /\ step(promises[f].p, handles')
                /\ ret'.kind \notin {"error", "value"}]_vars

\* C11 witness: the poll that has just run found the handle rejected and
\* left the future Settled with that error.
C11_Witness ==
    /\ ret.op = "await" /\ ret.ticked = 1
    /\ Settled(ret.f)
    /\ handles[promises[ret.f].p].rejects
    /\ promises[ret.f].exception = exception(promises[ret.f].p)
    /\ promises[ret.f].exception # 0

\* C12: cancelling a Pending future leaves it Cancelled and out of the live
\* set; a later poll of a Cancelled future performs no engine tick and
\* delivers the cancellation, not the handle's outcome; cancelling a Settled
\* future changes nothing.
C12_CancelIsTerminal ==
    [][\A f \in DOMAIN promises :
          /\ (Pending(f) /\ ret'.op = "future_cancel" /\ ret'.f = f) =>
                (promises'[f].state = "CANCELLED" /\ f \notin _promises')
          /\ (Settled(f) /\ ret'.op = "future_cancel" /\ ret'.f = f) =>
                (promises'[f] = promises[f] /\ ret'.kind = "False")
          /\ (Cancelled(f) /\ ret'.op \in {"await", "send"} /\ ret'.f = f) =>
                /\ ret'.ticked = 0
                /\ handles' = handles
                /\ ret'.kind = "CancelledError"
                /\ promises'[f].state = "CANCELLED"]_vars

\* C13: entering the managed scope returns the context itself, and when the
\* scope has been left the live set is empty and no Bridge Future of the
\* context is Pending.
C13_ScopeExitCancelsAll ==
    /\ ret.op = "__aenter__" => ret.kind = "self"
    /\ ret.op = "__aexit__" =>
          /\ ret.kind = "None"
          /\ _promises = {}
          /\ \A f \in DOMAIN promises : ~Pending(f)

\* The outcomes of an operation that are a raised exception.
Raised ==
    {"RuntimeError", "TypeError", "AttributeError", "InvalidStateError",
     "CancelledError", "error"}

\* C14: once the managed scope has been left, the next advance() on the
\* context, or poll of one of its futures, fails with an error and performs
\* no engine tick.
C14_NoTickAfterTeardown ==
    [][(ret.op = "__aexit__" /\ ret'.op \in {"advance", "await"}) =>
          /\ ret'.kind \in Raised
          /\ ret'.ticked = 0
          /\ handles' = handles]_vars

\* C15: the synchronous wrappers eval, call and call_module hand back the
\* value the engine computed for their input (eval of "5+5" gives 10, call
\* of add with 1 and 2 gives 3).
C15_SyncWrappersReturnEngineValue ==
    /\ ret.op = "eval" =>
          (ret.kind = "value" /\ ret.val = JsContext_eval(Codes[ret.f]))
    /\ ret.op \in {"call", "call_module"} =>
          (ret.kind = "value" /\ ret.val = JsContext_call("add", Args[ret.f]))

\* C16: once a future is Settled or Cancelled, no operation changes its
\* state or its stored value or error.
C16_TerminalStateIsImmutable ==
    [][\A f \in DOMAIN promises :
          ~Pending(f) =>
             /\ promises'[f].state = promises[f].state
             /\ promises'[f].result = promises[f].result
             /\ promises'[f].exception = promises[f].exception]_vars

\* C16 witness: cancel() has just been called on a Settled future, which is
\* still Settled with the outcome of its handle.
C16_Witness ==
    /\ ret.op = "future_cancel"
    /\ Settled(ret.f)
    /\ HoldsOwnOutcome(ret.f)

\* C18: a poll of a Pending future advances the engine loop by exactly one
\* tick, and the future leaves Pending in that poll exactly when its handle
\* reports settled after the tick.
C18_PollTicksExactlyOnce ==
    [][\A f \in DOMAIN promises :
          (Pending(f) /\ ret'.op = "await" /\ ret'.f = f) =>
             /\ ret'.ticked = 1
             /\ handles' = JsContext_advance
             /\ (promises'[f].state # "PENDING") <=> step(promises[f].p, handles')]_vars

\* C19: when a suspended await is resumed while its future is still
\* Pending, it ends with RuntimeError: it returns no value, does not suspend
\* again and performs no engine tick.
C19_ResumeWhilePendingIsFatal ==
    [][\A f \in DOMAIN promises :
          (Pending(f) /\ promises[f].suspended /\ ret'.op = "send" /\ ret'.f = f) =>
             /\ ret'.kind = "RuntimeError"
             /\ ret'.ticked = 0
             /\ handles' = handles
             /\ promises'[f].state = "PENDING"
             /\ ~promises'[f].suspended]_vars

\* C19 witness: a suspended await was resumed before the handle settled and
\* raised RuntimeError.
C19_Witness ==
    /\ ret.op = "send" /\ ret.kind = "RuntimeError"
    /\ Pending(ret.f)
    /\ ~step(promises[ret.f].p, handles)

\* C20: advance() and every step of wait() leave every future and the live
\* set as they were, and a future leaves Pending only in a poll of that
\* future or in a cancellation.
C20_AdvanceAndWaitOnlyTick ==
    /\ [][ret'.op \in {"advance", "wait"} =>
             (promises' = promises /\ _promises' = _promises)]_vars
    /\ [][\A f \in DOMAIN promises :
             (Pending(f) /\ promises'[f].state # "PENDING") =>
                \/ ret'.op \in {"await", "future_cancel"} /\ ret'.f = f
                \/ ret'.op \in {"cancel", "__aexit__"}]_vars

\* C20 witness: advance() has just ticked, a handle has settled and its
\* future is still Pending.
C20_Witness ==
    /\ ret.op = "advance"
    /\ \E f \in DOMAIN promises : Pending(f) /\ step(promises[f].p, handles)

====
